---- MODULE Spec2Model ----
(***************************************************************************)
(* Model of the mechanical dog simulation: MechanicalDogOptimized          *)
(* (dog_simulation_optimized.py) and MechanicalDog                         *)
(* (dog_simulation_slow.py), driven in lockstep by the same calls, as      *)
(* test_simulations.py drives them.                                        *)
(*                                                                         *)
(* Numbers.  Python floats are represented in fixed point: the integer k   *)
(* stands for k / Scale, so 1.0 is Scale, step_size 0.01 is 10 and        *)
(* tolerance 0.1 is 100.  A product of two fixed-point                     *)
(* numbers is rounded to the nearest unit (Mul), as a float product is     *)
(* rounded to the nearest float.  Sensor readings are Python ints (small   *)
(* exact floats in the slow variant) and are plain integers here.          *)
(***************************************************************************)
EXTENDS Integers, Sequences, FiniteSets, TLC

\* ------------------------------------------------------------------ bounds
MaxUpdates == 3      \* update_position calls per run
MaxCap == 2          \* largest explicit max_history argument
MaxSamples == 3      \* largest num_samples argument
MaxNegSamples == 1   \* most negative num_samples argument is -MaxNegSamples
MaxSensorLen == 1    \* the slow dog scans while its sensor_data is at most this long
MaxFieldLen == 1     \* longest enumerated field argument of find_obstacles
SqLimit == 20000     \* largest |d| (in units) whose square is computed exactly
SqrtDigits == 100    \* a square root near the tolerance keeps 1 / SqrtDigits of a unit
Scale == 1000        \* fixed-point units per 1.0

\* --------------------------------------------------------- program constants
DefaultMaxHistory == 1000   \* __init__(name, max_history=1000)
NumLegs == 4                \* range(4)
threshold == 1000           \* find_obstacles: threshold = 1000
MaxSteps == 1000            \* plan_path: for step in range(1000)
step_size == Scale \div 100   \* step_size = 0.01
tolerance == Scale \div 10    \* tolerance = 0.1
EnergyPerDistance == 10     \* energy = distance * 10

\* ------------------------------------------------------------------ numerics
Abs(x) == IF x < 0 THEN -x ELSE x

Max2(a, b) == IF a < b THEN b ELSE a

\* n / d rounded to the nearest integer (d > 0); halves round up
RoundDiv(n, d) == (2 * n + d) \div (2 * d)

\* float product a * b of two fixed-point numbers
Mul(a, b) == RoundDiv(a * b, Scale)

Vec(x, y, z) == <<x * Scale, y * Scale, z * Scale>>

Zero3 == <<0, 0, 0>>

Range(s) == {s[i] : i \in 1..Len(s)}

\* ------------------------------------------------------------------- state
VARIABLES
  dog_opt,     \* the MechanicalDogOptimized instance
  dog_slow,    \* the MechanicalDog instance
  maxlen,      \* dog_opt.movement_history.maxlen
  ret,         \* the last call: operation, arguments before and after, results
  produced,    \* the position values produced by the update_position calls so far
  prev,        \* the call before the last one, kept when two plan_path runs are compared
  last_scan    \* the most recent scan_environment call

vars == <<dog_opt, dog_slow, maxlen, ret, produced, prev, last_scan>>

\* A history entry is either an independent value (a tuple or a slice copy)
\* or an alias of the dog's position list, which a later in-place write changes.
\* a history that keeps the position list itself instead of a snapshot
tuple_alias(position) == [alias |-> TRUE, val |-> position]

\* tuple(self.position)
tuple(position) == [alias |-> FALSE, val |-> position]

\* self.position[:]
slice_copy(position) == [alias |-> FALSE, val |-> position]

\* what reading entry e of a dog's history yields
entry_value(dog, e) == IF e.alias THEN dog.position ELSE e.val

\* list(dog.movement_history), entries read now
history(dog) ==
  [k \in 1..Len(dog.movement_history) |-> entry_value(dog, dog.movement_history[k])]

\* an append that ignores the capacity, as a plain list does
deque_append_unbounded(d, m, x) == Append(d, x)

\* deque(maxlen=m).append(x): a full deque drops its leftmost entry
deque_append(d, m, x) ==
  IF m = 0 THEN d
  ELSE IF Len(d) >= m THEN Append(Tail(d), x)
  ELSE Append(d, x)

\* __init__ of both classes
new_dog(name) ==
  [name |-> name,
   position |-> Zero3,
   velocity |-> Zero3,
   leg_positions |-> [leg \in 1..NumLegs |-> Zero3],
   sensor_data |-> <<>>,
   movement_history |-> <<>>]

\* ------------------------------------------------------------ update_position
RECURSIVE integrate_two_axes(_, _, _, _)
\* the loop stopping one component short: for i in range(2)
integrate_two_axes(position, velocity, delta_time, i) ==
  IF i > 2 THEN position
  ELSE integrate_two_axes([position EXCEPT ![i] = @ + Mul(velocity[i], delta_time)],
                          velocity, delta_time, i + 1)

RECURSIVE integrate(_, _, _, _)
\* for i in range(3): self.position[i] += self.velocity[i] * delta_time
integrate(position, velocity, delta_time, i) ==
  IF i > 3 THEN position
  ELSE integrate([position EXCEPT ![i] = @ + Mul(velocity[i], delta_time)],
                 velocity, delta_time, i + 1)

\* MechanicalDogOptimized.update_position
update_position(dog, m, delta_time) ==
  LET moved == [dog EXCEPT !.position = integrate(dog.position, dog.velocity, delta_time, 1)]
  IN  [moved EXCEPT !.movement_history = deque_append(@, m, tuple(moved.position))]

RECURSIVE slow_new_position(_, _, _, _)
\* for i in range(len(self.position)): new_position.append(...)
slow_new_position(new_position, dog, delta_time, i) ==
  IF i > Len(dog.position) THEN new_position
  ELSE slow_new_position(
         Append(new_position, dog.position[i] + Mul(dog.velocity[i], delta_time)),
         dog, delta_time, i + 1)

\* MechanicalDog.update_position
slow_update_position(dog, delta_time) ==
  LET moved == [dog EXCEPT !.position = slow_new_position(<<>>, dog, delta_time, 1)]
  IN  [moved EXCEPT !.movement_history = Append(@, slice_copy(moved.position))]

\* ----------------------------------------------------------- scan_environment
\* range(n) as the sequence of its values
range(n) == [k \in 1..Max2(n, 0) |-> k - 1]

RECURSIVE scan_fill_unsquared(_, _, _, _, _)
\* the loops storing i_squared + j, the square of j forgotten
scan_fill_unsquared(sensor_readings, num_samples, i, j, idx) ==
  IF i >= Len(range(num_samples)) THEN sensor_readings
  ELSE IF j >= Len(range(num_samples))
       THEN scan_fill_unsquared(sensor_readings, num_samples, i + 1, 0, idx)
  ELSE LET i_squared == i * i
       IN scan_fill_unsquared([sensor_readings EXCEPT ![idx + 1] = i_squared + j],
                              num_samples, i, j + 1, idx + 1)

RECURSIVE scan_fill(_, _, _, _, _)
\* the nested loops of the optimized scan, writing sensor_readings[idx]
\* (idx is 0-based in the source, the sequence 1-based here)
scan_fill(sensor_readings, num_samples, i, j, idx) ==
  IF i >= Len(range(num_samples)) THEN sensor_readings
  ELSE IF j >= Len(range(num_samples))
       THEN scan_fill(sensor_readings, num_samples, i + 1, 0, idx)
  ELSE LET i_squared == i * i
       IN scan_fill([sensor_readings EXCEPT ![idx + 1] = i_squared + j * j],
                    num_samples, i, j + 1, idx + 1)

\* MechanicalDogOptimized.scan_environment: the returned sensor_readings
scan_environment(num_samples) ==
  LET total_readings == num_samples * num_samples
      preallocated == [k \in 1..total_readings |-> 0]
  IN  scan_fill(preallocated, num_samples, 0, 0, 0)

RECURSIVE slow_scan_fill(_, _, _, _)
\* the nested loops of the slow scan, appending math.pow(i, 2) + math.pow(j, 2)
slow_scan_fill(sensor_readings, num_samples, i, j) ==
  IF i >= Len(range(num_samples)) THEN sensor_readings
  ELSE IF j >= Len(range(num_samples))
       THEN slow_scan_fill(sensor_readings, num_samples, i + 1, 0)
  ELSE slow_scan_fill(Append(sensor_readings, i * i + j * j), num_samples, i, j + 1)

\* MechanicalDog.scan_environment: the returned sensor_readings
slow_scan_environment(num_samples) == slow_scan_fill(<<>>, num_samples, 0, 0)

\* self.sensor_data = sensor_readings
store_sensor_data(dog, sensor_readings) == [dog EXCEPT !.sensor_data = sensor_readings]

\* self.sensor_data.extend(sensor_readings)
slow_store_sensor_data(dog, sensor_readings) ==
  [dog EXCEPT !.sensor_data = @ \o sensor_readings]

\* ------------------------------------------------------ calculate_leg_kinematics
\* d * d; beyond SqLimit the square saturates (it is only ever compared with
\* values far below SqLimit * SqLimit).  The float product 0.1 * 0.1 is
\* 0.010000000000000002, one unit in the last place above 0.01 (and above
\* 0.06 * 0.06 + 0.08 * 0.08, which is 0.01): the square of the tolerance is
\* one unit of squares above its exact value; the other squares are exact
Sq(d) ==
  IF Abs(d) > SqLimit THEN SqLimit * SqLimit
  ELSE IF Abs(d) = tolerance THEN d * d + 1
  ELSE d * d

RECURSIVE isqrt_search(_, _, _)
\* the largest r in lo..hi with r * r <= x
isqrt_search(x, lo, hi) ==
  IF lo >= hi THEN lo
  ELSE LET mid == (lo + hi + 1) \div 2
       IN IF mid * mid <= x THEN isqrt_search(x, mid, hi)
          ELSE isqrt_search(x, lo, mid - 1)

\* math.sqrt on a sum of squares of fixed-point numbers, rounded to the nearest unit
sqrt(x) ==
  LET r == isqrt_search(x, 0, 2 * SqLimit)
  IN  IF x - r * r > r THEN r + 1 ELSE r

\* self.leg_positions[leg_index] accepts -4..3 (negative indices count from the end)
valid_index(leg_index) == leg_index >= -NumLegs /\ leg_index < NumLegs

\* the 1-based position of Python index leg_index
list_index(leg_index) == IF leg_index < 0 THEN leg_index + NumLegs + 1 ELSE leg_index + 1

\* MechanicalDogOptimized.calculate_leg_kinematics
calculate_leg_kinematics(dog, leg_index, target_position) ==
  IF ~valid_index(leg_index) THEN [err |-> "IndexError", out |-> 0]
  ELSE LET leg == dog.leg_positions[list_index(leg_index)]
           dx == target_position[1] - leg[1]
           dy == target_position[2] - leg[2]
           dz == target_position[3] - leg[3]
           distance == sqrt(Sq(dx) + Sq(dy) + Sq(dz))
       IN  [err |-> "none", out |-> distance]

\* -------------------------------------------------------------- find_obstacles
RECURSIVE find_loop_inclusive(_, _, _)
\* the loop testing reading >= threshold
find_loop_inclusive(obstacles, sensor_data, k) ==
  IF k > Len(sensor_data) THEN obstacles
  ELSE find_loop_inclusive(IF sensor_data[k] >= threshold
                             THEN obstacles \cup {sensor_data[k]}
                             ELSE obstacles,
                           sensor_data, k + 1)

RECURSIVE find_loop(_, _, _)
\* for reading in sensor_data: if reading > threshold: obstacles.add(reading)
find_loop(obstacles, sensor_data, k) ==
  IF k > Len(sensor_data) THEN obstacles
  ELSE find_loop(IF sensor_data[k] > threshold
                   THEN obstacles \cup {sensor_data[k]}
                   ELSE obstacles,
                 sensor_data, k + 1)

\* MechanicalDogOptimized.find_obstacles: a set
find_obstacles(sensor_data) == find_loop({}, sensor_data, 1)

\* reading in obstacles, on a list
list_contains(obstacles, reading) == \E k \in 1..Len(obstacles) : obstacles[k] = reading

RECURSIVE slow_find_loop(_, _, _)
\* ... if reading not in obstacles: obstacles.append(reading)
slow_find_loop(obstacles, sensor_data, k) ==
  IF k > Len(sensor_data) THEN obstacles
  ELSE slow_find_loop(IF sensor_data[k] > threshold /\ ~list_contains(obstacles, sensor_data[k])
                        THEN Append(obstacles, sensor_data[k])
                        ELSE obstacles,
                      sensor_data, k + 1)

\* MechanicalDog.find_obstacles: a list
slow_find_obstacles(sensor_data) == slow_find_loop(<<>>, sensor_data, 1)

\* ------------------------------------------------------------------- plan_path
\* tolerance_sq = tolerance * tolerance, a float product
tolerance_sq == Sq(tolerance)

\* dx*dx + dy*dy + dz*dz between two points
dist_squared(goal, current) ==
  Sq(goal[1] - current[1]) + Sq(goal[2] - current[2]) + Sq(goal[3] - current[3])

\* an iteration that compares dist_squared with tolerance, not with its square
plan_iteration_unsquared(st, goal) ==
  IF st.done THEN st
  ELSE IF dist_squared(goal, st.current) < tolerance * Scale
       THEN [st EXCEPT !.done = TRUE, !.step = @ + 1]
  ELSE LET dx == goal[1] - st.current[1]
           dy == goal[2] - st.current[2]
           dz == goal[3] - st.current[3]
           current == <<st.current[1] + Mul(dx, step_size),
                        st.current[2] + Mul(dy, step_size),
                        st.current[3] + Mul(dz, step_size)>>
       IN [path |-> Append(st.path, tuple(current)),
           current |-> current,
           start |-> IF st.aliased THEN current ELSE st.start,
           aliased |-> st.aliased,
           step |-> st.step + 1,
           done |-> FALSE]

\* an iteration that steps and appends first and tests for arrival afterwards
plan_iteration_step_first(st, goal) ==
  IF st.done THEN st
  ELSE LET dx == goal[1] - st.current[1]
           dy == goal[2] - st.current[2]
           dz == goal[3] - st.current[3]
           current == <<st.current[1] + Mul(dx, step_size),
                        st.current[2] + Mul(dy, step_size),
                        st.current[3] + Mul(dz, step_size)>>
       IN [path |-> Append(st.path, tuple(current)),
           current |-> current,
           start |-> IF st.aliased THEN current ELSE st.start,
           aliased |-> st.aliased,
           step |-> st.step + 1,
           done |-> dist_squared(goal, current) < tolerance_sq]

\* one iteration of "for step in range(1000)":  st = [path, current, start,
\* aliased, step, done]; aliased says whether current is the caller's start
\* list itself, step counts the iterations begun, done is set by break
plan_iteration(st, goal) ==
  IF st.done THEN st
  ELSE IF dist_squared(goal, st.current) < tolerance_sq
       THEN [st EXCEPT !.done = TRUE, !.step = @ + 1]
  ELSE LET dx == goal[1] - st.current[1]
           dy == goal[2] - st.current[2]
           dz == goal[3] - st.current[3]
           current == <<st.current[1] + Mul(dx, step_size),
                        st.current[2] + Mul(dy, step_size),
                        st.current[3] + Mul(dz, step_size)>>
       IN [path |-> Append(st.path, tuple(current)),
           current |-> current,
           start |-> IF st.aliased THEN current ELSE st.start,
           aliased |-> st.aliased,
           step |-> st.step + 1,
           done |-> FALSE]

RECURSIVE plan_loop(_, _, _)
\* n consecutive iterations of the loop from st (halved, to keep the evaluation
\* shallow); after break the remaining iterations do nothing
plan_loop(st, goal, n) ==
  IF n = 0 \/ st.done THEN st
  ELSE IF n = 1 THEN plan_iteration(st, goal)
  ELSE CHOOSE last \in {plan_loop(first, goal, n - n \div 2) :
                          first \in {plan_loop(st, goal, n \div 2)}} : TRUE

\* a planner that steps the caller's start list itself: current = start
plan_run_aliased(start, goal, obstacles) ==
  plan_loop([path |-> <<>>, current |-> start, start |-> start, aliased |-> TRUE,
             step |-> 0, done |-> FALSE],
            goal, MaxSteps)

\* a planner that gives up at once when there are obstacles
plan_run_avoiding(start, goal, obstacles) ==
  plan_loop([path |-> <<>>, current |-> start, start |-> start, aliased |-> FALSE,
             step |-> 0, done |-> obstacles # {}],
            goal, MaxSteps)

\* a planner whose loop runs one iteration more: range(1001)
plan_run_extra(start, goal, obstacles) ==
  plan_loop([path |-> <<>>, current |-> start, start |-> start, aliased |-> FALSE,
             step |-> 0, done |-> FALSE],
            goal, MaxSteps + 1)

\* MechanicalDogOptimized.plan_path up to its return: current = list(start) is a copy
plan_run(start, goal, obstacles) ==
  plan_loop([path |-> <<>>, current |-> start, start |-> start, aliased |-> FALSE,
             step |-> 0, done |-> FALSE],
            goal, MaxSteps)

\* the returned path, as the caller reads it
path_of(st) ==
  [k \in 1..Len(st.path) |-> IF st.path[k].alias THEN st.current ELSE st.path[k].val]

\* MechanicalDogOptimized.plan_path
plan_path(start, goal, obstacles) == path_of(plan_run(start, goal, obstacles))

\* ------------------------------------------------------- plan_path, slow variant
\* math.sqrt of a squared distance, in units of 1 / (Scale * SqrtDigits) and
\* rounded to nearest: near the tolerance the root is as fine as the squares
\* are, as with floats (math.sqrt(0.01) is 0.1, the root of the next float
\* below 0.01 is below 0.1); far above it the coarse root is fine enough
fine_sqrt(x) ==
  IF x < 4 * tolerance * tolerance
    THEN sqrt(x * SqrtDigits * SqrtDigits)
    ELSE sqrt(x) * SqrtDigits

\* a distance to the goal that leaves out the third coordinate
dist_to_goal_flat(goal, next_pos) ==
  fine_sqrt(Sq(goal[1] - next_pos[1]) + Sq(goal[2] - next_pos[2]))

\* math.sqrt((goal[0] - next_pos[0])**2 + (goal[1] - next_pos[1])**2 + (goal[2] - next_pos[2])**2)
dist_to_goal(goal, next_pos) ==
  fine_sqrt(Sq(goal[1] - next_pos[1]) + Sq(goal[2] - next_pos[2])
              + Sq(goal[3] - next_pos[3]))

\* one iteration of the slow loop: st = [path, current, step, done]; next_pos
\* is a fresh copy of current, and it is next_pos that is appended
slow_plan_iteration(st, goal) ==
  IF st.done THEN st
  ELSE IF dist_to_goal(goal, st.current) < tolerance * SqrtDigits
       THEN [st EXCEPT !.done = TRUE, !.step = @ + 1]
  ELSE LET next_pos == [i \in 1..3 |->
                          st.current[i] + Mul(goal[i] - st.current[i], step_size)]
       IN [path |-> Append(st.path, next_pos),
           current |-> next_pos,
           step |-> st.step + 1,
           done |-> FALSE]

RECURSIVE slow_plan_loop(_, _, _)
\* n consecutive iterations of the slow loop from st (halved, as plan_loop)
slow_plan_loop(st, goal, n) ==
  IF n = 0 \/ st.done THEN st
  ELSE IF n = 1 THEN slow_plan_iteration(st, goal)
  ELSE CHOOSE last \in {slow_plan_loop(first, goal, n - n \div 2) :
                          first \in {slow_plan_loop(st, goal, n \div 2)}} : TRUE

\* MechanicalDog.plan_path
slow_plan_path(start, goal, obstacles) ==
  slow_plan_loop([path |-> <<>>, current |-> start, step |-> 0, done |-> FALSE],
                 goal, MaxSteps).path

\* ------------------------------------------------- calculate_energy_consumption
\* the log text as a sequence of pieces: f"Step {i}: {energy} units" and "\n"
log_line(i, energy) == [newline |-> FALSE, step |-> i, energy |-> energy]

newline == [newline |-> TRUE, step |-> 0, energy |-> 0]

RECURSIVE join(_, _)
\* "\n".join(energy_log_parts), from the k-th part on
join(energy_log_parts, k) ==
  IF k > Len(energy_log_parts) THEN <<>>
  ELSE IF k = Len(energy_log_parts) THEN <<energy_log_parts[k]>>
  ELSE <<energy_log_parts[k], newline>> \o join(energy_log_parts, k + 1)

RECURSIVE energy_loop_short(_, _, _)
\* a loop over range(path_len - 2): the last segment is left out
energy_loop_short(acc, path, i) ==
  IF i >= Len(path) - 2 THEN acc
  ELSE LET current == path[i + 1]
           next_pos == path[i + 2]
           distance == sqrt(dist_squared(next_pos, current))
           energy == distance * EnergyPerDistance
       IN energy_loop_short([total_energy |-> acc.total_energy + energy,
                             energy_log_parts |-> Append(acc.energy_log_parts,
                                                         log_line(i, energy))],
                            path, i + 1)

RECURSIVE energy_loop(_, _, _)
\* for i in range(path_len - 1): ...   acc = [total_energy, energy_log_parts]
\* i is the 0-based loop index of the source
energy_loop(acc, path, i) ==
  IF i >= Len(path) - 1 THEN acc
  ELSE LET current == path[i + 1]
           next_pos == path[i + 2]
           distance == sqrt(dist_squared(next_pos, current))
           energy == distance * EnergyPerDistance
       IN energy_loop([total_energy |-> acc.total_energy + energy,
                       energy_log_parts |-> Append(acc.energy_log_parts,
                                                   log_line(i, energy))],
                      path, i + 1)

\* MechanicalDogOptimized.calculate_energy_consumption: (total_energy, energy_log)
calculate_energy_consumption(path) ==
  LET acc == energy_loop([total_energy |-> 0, energy_log_parts |-> <<>>], path, 0)
  IN  <<acc.total_energy, join(acc.energy_log_parts, 1)>>

RECURSIVE slow_distance_loop(_, _, _, _)
\* for j in range(3): distance += (next_pos[j] - current[j]) ** 2
slow_distance_loop(distance, next_pos, current, j) ==
  IF j >= 3 THEN distance
  ELSE slow_distance_loop(distance + Sq(next_pos[j + 1] - current[j + 1]),
                          next_pos, current, j + 1)

RECURSIVE slow_energy_loop(_, _, _)
\* for i in range(len(path) - 1): ...   acc = [total_energy, energy_log]; every
\* line of the log is followed by "\n"
slow_energy_loop(acc, path, i) ==
  IF i >= Len(path) - 1 THEN acc
  ELSE LET current == path[i + 1]
           next_pos == path[i + 2]
           distance == sqrt(slow_distance_loop(0, next_pos, current, 0))
           energy == distance * EnergyPerDistance
       IN slow_energy_loop([total_energy |-> acc.total_energy + energy,
                            energy_log |-> acc.energy_log
                                             \o <<log_line(i, energy), newline>>],
                           path, i + 1)

\* MechanicalDog.calculate_energy_consumption: (total_energy, energy_log)
slow_calculate_energy_consumption(path) ==
  LET acc == slow_energy_loop([total_energy |-> 0, energy_log |-> <<>>], path, 0)
  IN  <<acc.total_energy, acc.energy_log>>

\* ------------------------------------------------------------------ arguments
Velocities == {<<1000, -2000, 15>>}

DeltaTimes == {-100, 0, 100}

Samples == (-MaxNegSamples)..MaxSamples

LegIndexes == {-NumLegs - 1, -1, 0, NumLegs}

Targets == {Vec(1, 2, 3)}

Readings == {threshold, 1500}

Fields ==
  UNION {[1..n -> Readings] : n \in 0..MaxFieldLen}
    \cup {<<1500, 1500>>, <<500, 1200, 800, 1500, 900, 2000>>}

ObstacleArgs == {{1200, 1500, 2000}}

\* start and goal pairs planned during a run of the dogs
NearPlans == {<<Zero3, Zero3>>, <<Vec(1, 2, 3), <<1110, 2000, 3000>> >>}

\* no waypoint, one, the four of the test, and segments of unequal lengths
Paths ==
  {<<>>, <<Zero3>>, <<Vec(0, 0, 0), Vec(1, 0, 0), Vec(2, 0, 0), Vec(3, 0, 0)>>,
   <<Vec(1, 2, 3), Vec(4, 6, 3)>>, <<Zero3, Vec(3, 4, 0), Vec(3, 4, 12)>>}

\* ---------------------------------------------------------------------- calls
\* a call: the arguments as passed and as the caller finds them afterwards, the
\* optimized and the slow dog's return values, the error raised, and for
\* plan_path the loop iterations begun
call(op, args, after, out, slow, err) ==
  [op |-> op, args |-> args, after |-> after, out |-> out, slow |-> slow, err |-> err,
   steps |-> 0]

\* MechanicalDogOptimized("..", max_history) and MechanicalDog("..")
Init ==
  \E omitted \in BOOLEAN, max_history \in 0..MaxCap :
    /\ dog_opt = new_dog("Test")
    /\ dog_slow = new_dog("Test")
    /\ maxlen = IF omitted THEN DefaultMaxHistory ELSE max_history
    /\ ret = call("init", <<>>, <<>>, <<>>, <<>>, "none")
    /\ produced = <<>>
    /\ prev = call("init", <<>>, <<>>, <<>>, <<>>, "none")
    /\ last_scan = call("init", <<>>, <<>>, <<>>, <<>>, "none")

\* dog_slow.velocity = v; dog_opt.velocity = v, right after construction
SetVelocity(v) ==
  /\ ret.op = "init"
  /\ dog_opt' = [dog_opt EXCEPT !.velocity = v]
  /\ dog_slow' = [dog_slow EXCEPT !.velocity = v]
  /\ ret' = call("set_velocity", <<v>>, <<v>>, <<>>, <<>>, "none")
  /\ UNCHANGED <<maxlen, produced, prev, last_scan>>

\* dog_slow.update_position(delta_time); dog_opt.update_position(delta_time)
UpdatePosition(delta_time) ==
  /\ Len(produced) < MaxUpdates
  /\ dog_opt' = update_position(dog_opt, maxlen, delta_time)
  /\ dog_slow' = slow_update_position(dog_slow, delta_time)
  /\ produced' = Append(produced, dog_opt'.position)
  /\ ret' = call("update_position", <<delta_time>>, <<delta_time>>, <<>>, <<>>, "none")
  /\ UNCHANGED <<maxlen, prev, last_scan>>

\* dog_slow.scan_environment(num_samples); dog_opt.scan_environment(num_samples)
ScanEnvironment(num_samples) ==
  /\ Len(dog_slow.sensor_data) <= MaxSensorLen
  /\ LET sensor_readings == scan_environment(num_samples)
         slow_readings == slow_scan_environment(num_samples)
     IN  /\ dog_opt' = store_sensor_data(dog_opt, sensor_readings)
         /\ dog_slow' = slow_store_sensor_data(dog_slow, slow_readings)
         /\ ret' = call("scan_environment", <<num_samples>>, <<num_samples>>,
                        sensor_readings, slow_readings, "none")
  /\ last_scan' = ret'
  /\ UNCHANGED <<maxlen, produced, prev>>

\* dog_opt.calculate_leg_kinematics(leg_index, target_position)
LegKinematics(leg_index, target_position) ==
  /\ LET r == calculate_leg_kinematics(dog_opt, leg_index, target_position)
     IN  ret' = call("calculate_leg_kinematics", <<leg_index, target_position>>,
                     <<leg_index, target_position>>, r.out, <<>>, r.err)
  /\ UNCHANGED <<dog_opt, dog_slow, maxlen, produced, prev, last_scan>>

\* dog_slow.find_obstacles(sensor_data); dog_opt.find_obstacles(sensor_data)
FindObstacles(sensor_data) ==
  /\ ret' = call("find_obstacles", <<sensor_data>>, <<sensor_data>>,
                 find_obstacles(sensor_data), slow_find_obstacles(sensor_data), "none")
  /\ UNCHANGED <<dog_opt, dog_slow, maxlen, produced, prev, last_scan>>

\* dog_slow.plan_path(start, goal, obstacles); dog_opt.plan_path(start, goal, obstacles)
PlanPath(start, goal, obstacles) ==
  /\ LET st == plan_run(start, goal, obstacles)
     IN  ret' = [call("plan_path", <<start, goal, obstacles>>,
                      <<st.start, goal, obstacles>>, path_of(st),
                      slow_plan_path(start, goal, obstacles), "none")
                   EXCEPT !.steps = st.step]
  /\ UNCHANGED <<dog_opt, dog_slow, maxlen, produced, last_scan>>

\* dog_slow.calculate_energy_consumption(path); dog_opt.calculate_energy_consumption(path)
CalculateEnergy(path) ==
  /\ ret' = call("calculate_energy_consumption", <<path>>, <<path>>,
                 calculate_energy_consumption(path),
                 slow_calculate_energy_consumption(path), "none")
  /\ UNCHANGED <<dog_opt, dog_slow, maxlen, produced, prev, last_scan>>

Next ==
  \/ \E v \in Velocities : SetVelocity(v)
  \/ \E delta_time \in DeltaTimes : UpdatePosition(delta_time)
  \/ \E num_samples \in Samples : ScanEnvironment(num_samples)
  \/ \E leg_index \in LegIndexes, target_position \in Targets :
       LegKinematics(leg_index, target_position)
  \/ \E sensor_data \in Fields : FindObstacles(sensor_data)
  \/ \E p \in NearPlans, obstacles \in ObstacleArgs :
       PlanPath(p[1], p[2], obstacles) /\ UNCHANGED prev
  \/ \E path \in Paths : CalculateEnergy(path)

Spec == Init /\ [][Next]_vars

TypeOK == maxlen \in 0..DefaultMaxHistory

\* ------------------------------------------------- plan_path on its own inputs
\* start and goal pairs: the documented cases, start = goal, the tolerance
\* boundary, and goals too far to reach in MaxSteps iterations
FarPlans ==
  {<<Zero3, Vec(10, 10, 0)>>, <<Zero3, Vec(5, 5, 0)>>, <<Zero3, Zero3>>,
   <<Vec(1, 2, 3), Vec(1, 2, 3)>>, <<Zero3, <<tolerance, 0, 0>> >>,
   <<Zero3, <<tolerance - 1, 0, 0>> >>, <<Zero3, <<0, 0, 2 * tolerance>> >>,
   <<Zero3, Vec(-3, 4, 1)>>, <<Vec(1, 2, 3), Vec(10, 10, 0)>>,
   <<Zero3, Vec(2000, 0, 0)>>, <<Zero3, Vec(2400, 0, 0)>>,
   <<Vec(-2000, 0, 0), Vec(0, 3000, 0)>>,
   <<Zero3, <<(6 * tolerance) \div 10, (8 * tolerance) \div 10, 0>> >>}

PlanObstacles == {{}, {1500}, {1200, 1500, 2000}}

\* a fresh pair of dogs and the arguments of two plan_path calls that differ
\* in their obstacles only
InitPlan ==
  \E p \in FarPlans, o1 \in PlanObstacles, o2 \in PlanObstacles :
    /\ dog_opt = new_dog("Test")
    /\ dog_slow = new_dog("Test")
    /\ maxlen = DefaultMaxHistory
    /\ produced = <<>>
    /\ prev = call("init", <<>>, <<>>, <<>>, <<>>, "none")
    /\ last_scan = call("init", <<>>, <<>>, <<>>, <<>>, "none")
    /\ ret = call("pending", <<p[1], p[2], o1, o2>>, <<p[1], p[2], o1, o2>>, <<>>, <<>>, "none")

\* path = dog.plan_path(start, goal, o1)
PlanFirst ==
  /\ ret.op = "pending"
  /\ PlanPath(ret.args[1], ret.args[2], ret.args[3])
  /\ prev' = ret

\* path = dog.plan_path(start, goal, o2), on the same dog
PlanSecond ==
  /\ ret.op = "plan_path"
  /\ prev.op = "pending"
  /\ PlanPath(ret.args[1], ret.args[2], prev.args[4])
  /\ prev' = ret

NextPlan == PlanFirst \/ PlanSecond

SpecPlan == InitPlan /\ [][NextPlan]_vars

\* ====================================================================== claims
Min2(a, b) == IF a < b THEN a ELSE b

TheOperations ==
  {"update_position", "scan_environment", "calculate_leg_kinematics",
   "find_obstacles", "plan_path", "calculate_energy_consumption"}

\* C1: whatever calls were made, the optimized dog's motion history holds at
\* most maxlen entries (maxlen is the max_history argument, 1000 when omitted).
C1_HistoryBounded == Len(history(dog_opt)) <= maxlen

\* more updates than the capacity were made and the history is full
C1_Witness ==
  /\ maxlen > 0
  /\ Len(produced) > maxlen
  /\ Len(dog_opt.movement_history) = maxlen

\* C2: after N updates the history is the last min(N, maxlen) produced
\* positions, in order, each as it was when produced.
C2_HistoryIsLastPositions ==
  LET N == Len(produced)
      K == Min2(N, maxlen)
  IN  /\ Len(history(dog_opt)) = K
      /\ history(dog_opt) = SubSeq(produced, N - K + 1, N)

\* an entry was evicted and the retained entries differ from the position now
C2_Witness ==
  /\ maxlen >= 2
  /\ Len(produced) > maxlen
  /\ \A k \in 1..Len(dog_opt.movement_history) - 1 :
       history(dog_opt)[k] # dog_opt.position

\* C3: one update_position(delta_time) leaves position = p0 + v * delta_time in
\* each component, raises nothing, and the slow dog reaches the same position.
C3_PositionUpdate ==
  [][ret'.op = "update_position" =>
       /\ \A i \in 1..3 :
            dog_opt'.position[i]
              = dog_opt.position[i] + Mul(dog_opt.velocity[i], ret'.args[1])
       /\ dog_slow'.position = dog_opt'.position
       /\ ret'.err = "none"]_vars

\* a negative delta_time moved a dog that has a velocity in every component
C3_Witness ==
  /\ ret.op = "update_position"
  /\ ret.args[1] < 0
  /\ \A i \in 1..3 : dog_opt.velocity[i] # 0 /\ dog_opt.position[i] # 0

\* C4: update_position writes position and movement_history only,
\* scan_environment writes sensor_data only, the other four operations write no
\* field of either dog, and no operation changes its arguments, the velocity,
\* the leg positions, the name or the capacity.
C4_Frame ==
  [][/\ ret'.op = "update_position" =>
          /\ dog_opt' = [dog_opt EXCEPT !.position = dog_opt'.position,
                                        !.movement_history = dog_opt'.movement_history]
          /\ dog_slow' = [dog_slow EXCEPT !.position = dog_slow'.position,
                                          !.movement_history = dog_slow'.movement_history]
     /\ ret'.op = "scan_environment" =>
          /\ dog_opt' = [dog_opt EXCEPT !.sensor_data = dog_opt'.sensor_data]
          /\ dog_slow' = [dog_slow EXCEPT !.sensor_data = dog_slow'.sensor_data]
     /\ ret'.op \in TheOperations \ {"update_position", "scan_environment"} =>
          /\ dog_opt' = dog_opt
          /\ dog_slow' = dog_slow
     /\ ret'.op \in TheOperations =>
          /\ ret'.after = ret'.args
          /\ dog_opt'.velocity = dog_opt.velocity
          /\ dog_opt'.leg_positions = dog_opt.leg_positions
          /\ dog_opt'.name = dog_opt.name
          /\ maxlen' = maxlen]_vars

\* a non-empty path was just planned on a dog that has moved and scanned
C4_Witness ==
  /\ ret.op = "plan_path"
  /\ Len(ret.out) > 0
  /\ Len(produced) > 0
  /\ Len(dog_opt.sensor_data) > 0
  /\ dog_opt.velocity # Zero3

\* C5: for n >= 0 scan_environment(n) returns n * n values, the one at
\* flattened index i * n + j being i * i + j * j, raises nothing, and the slow
\* dog returns the same sequence.
C5_ScanField ==
  (ret.op = "scan_environment" /\ ret.args[1] >= 0) =>
    LET n == ret.args[1]
    IN  /\ Len(ret.out) = n * n
        /\ \A i \in 0..n - 1 : \A j \in 0..n - 1 :
             ret.out[i * n + j + 1] = i * i + j * j
        /\ ret.slow = ret.out
        /\ ret.err = "none"

\* a scan of at least 3 x 3 samples returned
C5_Witness ==
  /\ ret.op = "scan_environment"
  /\ ret.args[1] >= 3
  /\ Len(ret.out) >= 9

\* C6: after any calls, each dog's sensor_data is the sequence its most recent
\* scan_environment returned.
C6_SensorIsLastScan ==
  last_scan.op = "scan_environment" =>
    /\ dog_opt.sensor_data = last_scan.out
    /\ dog_slow.sensor_data = last_scan.slow

\* C7: find_obstacles(field) returns exactly the values of field above 1000,
\* whatever the dogs' state; the slow dog's list holds the same values once each.
C7_Obstacles ==
  ret.op = "find_obstacles" =>
    LET field == ret.args[1]
    IN  /\ ret.out = {v \in Range(field) : v > 1000}
        /\ Range(ret.slow) = ret.out
        /\ Len(ret.slow) = Cardinality(ret.out)
        /\ ret.err = "none"

\* a field with a repeated obstacle reading was classified by dogs that moved
C7_Witness ==
  /\ ret.op = "find_obstacles"
  /\ ret.args[1] = <<1500, 1500>>
  /\ ret.out = {1500}
  /\ Len(produced) > 0

reached(goal, p) == dist_squared(goal, p) < tolerance_sq

C10_Terminates ==
  ret.op = "plan_path" =>
    LET start == ret.args[1]
        goal == ret.args[2]
        path == ret.out
    IN  /\ ret.steps <= 1000
        /\ Len(path) <= 1000
        /\ ret.err = "none"
        /\ (~reached(goal, start) /\ \A k \in 1..Len(path) : ~reached(goal, path[k]))
             => Len(path) = 1000

\* a plan that never came within tolerance of its goal returned
C10_Witness ==
  /\ ret.op = "plan_path"
  /\ Len(ret.out) = 1000
  /\ ~reached(ret.args[2], ret.out[Len(ret.out)])

log_entries(energy_log) == SelectSeq(energy_log, LAMBDA piece : ~piece.newline)

RECURSIVE sum_energy(_, _)
\* the sum of the energies of the first k entries
sum_energy(entries, k) ==
  IF k = 0 THEN 0 ELSE sum_energy(entries, k - 1) + entries[k].energy

\* C12: calculate_energy_consumption on a path of k waypoints returns
\* (total_energy, energy_log) with exactly max(k - 1, 0) log entries; entry i
\* carries index i and 10 times the Euclidean distance from path[i] to
\* path[i + 1]; the total is the sum of the entries' energies; a path of 0 or 1
\* waypoints gives (0, empty log); the four-point test path gives 30 in three
\* entries; the slow variant returns the same total.
C12_Energy ==
  ret.op = "calculate_energy_consumption" =>
    LET path == ret.args[1]
        k == Len(path)
        total_energy == ret.out[1]
        entries == log_entries(ret.out[2])
    IN  /\ Len(entries) = Max2(k - 1, 0)
        /\ \A i \in 0..(Len(entries) - 1) :
             /\ entries[i + 1].step = i
             /\ entries[i + 1].energy =
                  10 * sqrt(dist_squared(path[i + 2], path[i + 1]))
        /\ total_energy = sum_energy(entries, Len(entries))
        /\ (k <= 1) => (total_energy = 0 /\ ret.out[2] = <<>>)
        /\ (path = <<Vec(0, 0, 0), Vec(1, 0, 0), Vec(2, 0, 0), Vec(3, 0, 0)>>)
             => (total_energy = 30 * Scale /\ Len(entries) = 3)
        /\ ret.slow[1] = total_energy
        /\ ret.err = "none"

\* the energy of a path with two segments of different lengths was computed
C12_Witness ==
  /\ ret.op = "calculate_energy_consumption"
  /\ Len(ret.args[1]) = 3
  /\ Len(log_entries(ret.out[2])) = 2
  /\ ret.out[1] = 170 * Scale
  /\ ret.slow[1] = 170 * Scale

\* C13: calculate_leg_kinematics raises an index error for every leg_index
\* outside 0..3, negative indices such as -1 included, and returns no distance;
\* for leg_index in 0..3 it returns the Euclidean distance from the target to
\* leg_positions[leg_index] and raises nothing.
C13_IndexChecked ==
  ret.op = "calculate_leg_kinematics" =>
    LET leg_index == ret.args[1]
        target_position == ret.args[2]
    IN  IF leg_index \in 0..(NumLegs - 1)
          THEN /\ ret.err = "none"
               /\ ret.out = sqrt(dist_squared(target_position,
                                              dog_opt.leg_positions[leg_index + 1]))
          ELSE /\ ret.err = "IndexError"
               /\ ret.out = 0

\* C14: the optimized stopping test (squared distance against the square of
\* the tolerance) and the slow one (square root against the tolerance) agree
\* up to the rounding of 0.1 * 0.1: the optimized path is a prefix of the slow
\* path, and the two paths are the same sequence of waypoints unless some
\* stopping test met a squared distance of exactly 0.01.
C14_SlowExtendsOptimized ==
  ret.op = "plan_path" =>
    LET start == ret.args[1]
        goal == ret.args[2]
        path == ret.out
        slow_path == ret.slow
        tested == {start} \cup Range(path)
    IN  /\ Len(path) <= Len(slow_path)
        /\ SubSeq(slow_path, 1, Len(path)) = path
        /\ (\A p \in tested : dist_squared(goal, p) # tolerance * tolerance)
             => (slow_path = path)

\* a plan on which the slow planner went one waypoint further than the
\* optimized one
C14_Witness ==
  /\ ret.op = "plan_path"
  /\ Len(ret.slow) = Len(ret.out) + 1
  /\ dist_squared(ret.args[2], ret.args[1]) = tolerance * tolerance

\* C14 as stated: for every start and goal the two plan_path variants return
\* paths of the same length with the same waypoints in the same order.
C14_SamePaths == (ret.op = "plan_path") => (ret.slow = ret.out)

\* C15: scan_environment with a negative num_samples generates no reading:
\* it returns an empty field and stores no new value in sensor_data, in the
\* slow and in the optimized variant alike, and raises nothing.
C15_NegativeScanEmpty ==
  (ret.op = "scan_environment" /\ ret.args[1] < 0) =>
    /\ ret.out = <<>>
    /\ ret.slow = ret.out
    /\ dog_opt.sensor_data = <<>>
    /\ ret.err = "none"

====
